---------------------------- MODULE Spec2Model ----------------------------
(***************************************************************************)
(* IronCAT (src/src/main.rs): B/S rulestring parser, its canonical         *)
(* rendering, and the toroidal cellular-automaton grid with its parallel   *)
(* update.                                                                 *)
(*                                                                         *)
(* A Rust `char` is a one-element TLA+ string; a `&str`/`String` is a      *)
(* sequence of such chars.  The token "U+00E9" stands for a char whose     *)
(* UTF-8 encoding is two bytes long (str::len counts bytes).               *)
(***************************************************************************)
EXTENDS Integers, Sequences, FiniteSets, TLC

VARIABLES
    input,      \* the &str handed to Rulestring::from_str
    parsed,     \* Result<Rulestring, RuleError> of the first parse
    shown,      \* the canonical rendering (fmt::Display for Rulestring)
    reparsed,   \* Result of parsing `shown`
    ppc,        \* position of the parse / render / re-parse pipeline
    matrix,     \* the Matrix {m, n, rules, rows}, or NoMatrix before Matrix::new
    pc,         \* position of the grid's caller
    left,       \* iterations the running `seed` loop still has to do
    gen,        \* number of completed `pulse` calls (the generation)
    cellsArg,   \* the `cells` argument of the running `seed` call
    draws,      \* iterations the running `seed` loop has done
    nworkers,   \* threads of the pool working on the running `pulse`
    local,      \* per worker: the item it holds and the value it computed
    out,        \* the Vec being collected by the running `pulse`
    matches,    \* clap's ArgMatches: argument name -> Option<value>
    loc,        \* main's locals m, n and rulestring
    exit,       \* exit status once the process has exited, else NoExit
    frames      \* frames printed so far

parserVars == <<input, parsed, shown, reparsed, ppc>>

parVars == <<nworkers, local, out>>

gridVars == <<matrix, pc, left, gen>>

seedVars == <<cellsArg, draws>>

mainVars == <<matches, loc, exit, frames>>

vars == <<parserVars, gridVars, seedVars, parVars, mainVars>>

(***************************************************************************)
(* Bounds.                                                                 *)
(***************************************************************************)
MaxLen == 4

\* grids of the sequential harness: up to MaxRows x MaxCols, MaxCells cells
MaxRows == 3

MaxCols == 3

MaxCells == 9

\* largest explicit `cells` argument of seed
MaxSeed == 2

\* generations counted
MaxGen == 2

\* grids and thread pool of the parallel harness
ParRows == 2

ParCols == 2

ParCells == 4

MaxWorkers == 2

(***************************************************************************)
(* Characters.                                                             *)
(***************************************************************************)
WideChar == "U+00E9"

\* The chars input strings are enumerated over.
Alphabet == {"B", "S", "/", "0", "2", "3", "9", " ", WideChar}

\* char::len_utf8
Utf8Len(c) == IF c = WideChar THEN 2 ELSE 1

\* char::is_whitespace, as used by str::trim
IsWhitespace(c) == c \in {" ", "\t", "\n"}

DigitChars == <<"0", "1", "2", "3", "4", "5", "6", "7", "8", "9">>

NoDigit == -1

\* char::to_digit(10): Some(i) for '0'..'9', None (NoDigit) otherwise
ToDigit(c) ==
    IF \E i \in 0..9 : DigitChars[i + 1] = c
    THEN CHOOSE i \in 0..9 : DigitChars[i + 1] = c
    ELSE NoDigit

\* usize::to_string for a single-digit index
IndexToString(i) == <<DigitChars[i + 1]>>

(***************************************************************************)
(* str helpers.                                                            *)
(***************************************************************************)
RECURSIVE StrLen(_)
\* str::len: the length in bytes
StrLen(s) == IF s = <<>> THEN 0 ELSE Utf8Len(Head(s)) + StrLen(Tail(s))

RECURSIVE TrimStart(_)
TrimStart(s) ==
    IF s # <<>> /\ IsWhitespace(Head(s)) THEN TrimStart(Tail(s)) ELSE s

RECURSIVE TrimEnd(_)
TrimEnd(s) ==
    IF s # <<>> /\ IsWhitespace(s[Len(s)])
    THEN TrimEnd(SubSeq(s, 1, Len(s) - 1))
    ELSE s

\* str::trim
Trim(s) == TrimEnd(TrimStart(s))

RECURSIVE SplitFrom(_, _, _)
SplitFrom(s, sep, parts) ==
    IF s = <<>> THEN parts
    ELSE IF Head(s) = sep
         THEN SplitFrom(Tail(s), sep, Append(parts, <<>>))
         ELSE SplitFrom(Tail(s), sep,
                        [parts EXCEPT ![Len(parts)] = Append(@, Head(s))])

\* str::split(sep).collect::<Vec<&str>>(): "" gives one empty part
Split(s, sep) == SplitFrom(s, sep, << <<>> >>)

\* a prefix test that accepts any leading char
StartsWithAny(s, c) == s # <<>>

\* str::starts_with(char)
StartsWith(s, c) == s # <<>> /\ s[1] = c

\* str::chars().skip(1)
SkipOne(s) == IF s = <<>> THEN <<>> ELSE Tail(s)

(***************************************************************************)
(* Rulestring and RuleError.                                               *)
(***************************************************************************)
Slots == 0..8

\* Rulestring::new
RulestringNew == [b |-> [i \in Slots |-> FALSE], s |-> [i \in Slots |-> FALSE]]

NoChar == ""

\* placeholder where a result carries no Rulestring
NoRules == <<>>

Ok(r) == [tag |-> "Ok", rules |-> r, c |-> NoChar]

BadString == [tag |-> "BadString", rules |-> NoRules, c |-> NoChar]

InvalidInt(ch) == [tag |-> "InvalidInt", rules |-> NoRules, c |-> ch]

NoResult == [tag |-> "None", rules |-> NoRules, c |-> NoChar]

\* a range test that lets the digit 0 through
DigitInRangeFromZero(i) == i >= 0 /\ i < 9

\* a range test that lets the digit 9 through
DigitInRangeToNine(i) == i > 0 /\ i <= 9

\* the test `i > 0 && i < 9` on a parsed digit
DigitInRange(i) == i > 0 /\ i < 9

RECURSIVE ScanDigits(_, _)
\* the `for b in part.chars().skip(1)` loop over the remaining chars `cs`,
\* setting slots of the array `arr`; returns the array or the error
ScanDigits(cs, arr) ==
    IF cs = <<>> THEN [err |-> FALSE, arr |-> arr, c |-> NoChar]
    ELSE LET ch == Head(cs)
             i  == ToDigit(ch)
         IN  IF i # NoDigit
             THEN IF DigitInRange(i)
                  THEN ScanDigits(Tail(cs), [arr EXCEPT ![i] = TRUE])
                  ELSE [err |-> TRUE, arr |-> arr, c |-> ch]
             ELSE [err |-> TRUE, arr |-> arr, c |-> ch]

\* a part parser that checks the leading letter of every part
ParsePartStrict(part, letter, arr) ==
    IF ~StartsWith(part, letter)
    THEN [tag |-> "BadString", arr |-> arr, c |-> NoChar]
    ELSE IF StrLen(part) = 1
         THEN [tag |-> "Ok", arr |-> [arr EXCEPT ![0] = TRUE], c |-> NoChar]
         ELSE LET r == ScanDigits(SkipOne(part), arr)
              IN  IF r.err
                  THEN [tag |-> "InvalidInt", arr |-> arr, c |-> r.c]
                  ELSE [tag |-> "Ok", arr |-> r.arr, c |-> NoChar]

\* one part of the rulestring: the `if part.len() == 1 { .. } else { .. }`
\* block; `letter` is 'B' or 'S'
ParsePart(part, letter, arr) ==
    IF StrLen(part) = 1
    THEN IF StartsWith(part, letter)
         THEN [tag |-> "Ok", arr |-> [arr EXCEPT ![0] = TRUE], c |-> NoChar]
         ELSE [tag |-> "BadString", arr |-> arr, c |-> NoChar]
    ELSE LET r == ScanDigits(SkipOne(part), arr)
         IN  IF r.err
             THEN [tag |-> "InvalidInt", arr |-> arr, c |-> r.c]
             ELSE [tag |-> "Ok", arr |-> r.arr, c |-> NoChar]

PartError(r) == IF r.tag = "BadString" THEN BadString ELSE InvalidInt(r.c)

\* impl FromStr for Rulestring
FromStr(str) ==
    LET rules == RulestringNew
        bs    == Split(Trim(str), "/")
    IN  IF Len(bs) # 2 THEN BadString
        ELSE LET rb == ParsePart(bs[1], "B", rules.b)
             IN  IF rb.tag # "Ok" THEN PartError(rb)
                 ELSE LET rs == ParsePart(bs[2], "S", rules.s)
                      IN  IF rs.tag # "Ok" THEN PartError(rs)
                          ELSE Ok([b |-> rb.arr, s |-> rs.arr])

RECURSIVE PushSlots(_, _, _)
\* the `for i in 0..self.b.len()` loop for one of the two strings
PushSlots(arr, i, str) ==
    IF i > 8 THEN str
    ELSE PushSlots(arr, i + 1, IF arr[i] THEN str \o IndexToString(i) ELSE str)

\* impl fmt::Display for Rulestring
Display(r) == PushSlots(r.b, 0, <<"B">>) \o <<"/">> \o PushSlots(r.s, 0, <<"S">>)

(***************************************************************************)
(* Inputs of the parser: every string over Alphabet up to MaxLen chars,    *)
(* and the rulestrings the documentation names.                            *)
(***************************************************************************)
Strings(k) == UNION {[1..l -> Alphabet] : l \in 0..k}

Life == <<"B", "3", "/", "S", "2", "3">>

NamedInputs ==
    { Life,
      <<"B", "3", "/", "S", "2", "3", "/", "S", "1">>,
      <<"B", "9", "/", "S", "2">>,
      <<" ", "B", "3", "/", "S", "2", "3", " ">>,
      <<"X", "3", "/", "Y", "2", "3">>,
      <<"B", "1", "3", "5", "7", "/", "S", "1", "3", "5", "7">>,
      <<"B", "1", "2", "3", "4", "5", "6", "7", "8", "/", "S", "8">> }

ParserInputs == Strings(MaxLen) \cup NamedInputs

\* Option<usize>::None for the `cells` argument of seed
NoCells == -1

\* no seed call is running: its locals do not exist
SeedIdle ==
    /\ cellsArg = NoCells
    /\ draws = 0

NoMatrix == [m |-> 0, n |-> 0, rules |-> NoRules, rows |-> <<>>]

GridIdle ==
    /\ matrix = NoMatrix
    /\ pc = "none"
    /\ left = 0
    /\ gen = 0
    /\ SeedIdle

ParIdle ==
    /\ nworkers = 0
    /\ local = <<>>
    /\ out = <<>>

NoExit == -1

NoLocals == [m |-> 0, n |-> 0, rulestring |-> NoRules]

MainIdle ==
    /\ matches = <<>>
    /\ loc = NoLocals
    /\ exit = NoExit
    /\ frames = 0

ParserIdle ==
    /\ input = <<>>
    /\ parsed = NoResult
    /\ shown = <<>>
    /\ reparsed = NoResult
    /\ ppc = "none"

ParseInit ==
    /\ input \in ParserInputs
    /\ parsed = NoResult
    /\ shown = <<>>
    /\ reparsed = NoResult
    /\ ppc = "start"
    /\ GridIdle
    /\ ParIdle
    /\ MainIdle

\* s.parse::<Rulestring>()
Parse ==
    /\ ppc = "start"
    /\ parsed' = FromStr(input)
    /\ ppc' = "parsed"
    /\ UNCHANGED <<input, shown, reparsed, gridVars, seedVars, parVars, mainVars>>

\* format!("{}", rules) on a successfully parsed Rulestring
Render ==
    /\ ppc = "parsed"
    /\ parsed.tag = "Ok"
    /\ shown' = Display(parsed.rules)
    /\ ppc' = "shown"
    /\ UNCHANGED <<input, parsed, reparsed, gridVars, seedVars, parVars, mainVars>>

\* parsing the canonical rendering again
Reparse ==
    /\ ppc = "shown"
    /\ reparsed' = FromStr(shown)
    /\ ppc' = "reparsed"
    /\ UNCHANGED <<input, parsed, shown, gridVars, seedVars, parVars, mainVars>>

ParseNext == Parse \/ Render \/ Reparse

SpecParse == ParseInit /\ [][ParseNext]_vars

(***************************************************************************)
(* Matrix.                                                                 *)
(***************************************************************************)
\* Matrix::new
MatrixNew(m, n, rules) ==
    [m |-> m, n |-> n, rules |-> rules, rows |-> [i \in 0..(m * n - 1) |-> 0]]

\* self.rows.len() as an index range
Indices(self) == DOMAIN self.rows

\* an iteration count that is one too many for an explicit argument
SeedIterationsOneMore(self, cells) ==
    IF cells # NoCells THEN cells + 1 ELSE Cardinality(Indices(self)) \div 2

\* the `iterations` computed by seed from its argument
SeedIterations(self, cells) ==
    IF cells # NoCells THEN cells ELSE Cardinality(Indices(self)) \div 2

\* a draw that adds one to the cell
SeedWriteIncrement(self, i) == [self EXCEPT !.rows[i] = @ + 1]

\* one pass of the seed loop body with the index i drawn: self.rows[i] = 1
SeedWrite(self, i) == [self EXCEPT !.rows[i] = 1]

ColOf(i, c) == i % c

RowOf(i, c) == i \div c

ColNext(i, c) == (i + 1) % c

\* a previous column without the wrap term
ColPrevNoWrap(i, c) == (i + c) % c

ColPrev(i, c) == (i + (c - 1)) % c

\* a next row without the wrap
RowNextNoWrap(row, r) == row + 1

RowNext(row, r) == (row + 1) % r

\* a previous row without the wrap term
RowPrevNoWrap(row, r) == (row + r) % r

RowPrev(row, r) == (row + (r - 1)) % r

\* the eight indices the closure of pulse reads for item i, in source order
ReadPositions(c, r, i) ==
    LET col      == ColOf(i, c)
        row      == RowOf(i, c)
        col_next == ColNext(i, c)
        col_prev == ColPrev(i, c)
        row_next == RowNext(row, r)
        row_prev == RowPrev(row, r)
    IN  << (c * row) + col_prev,
           (c * row) + col_next,
           (c * row_prev) + col,
           (c * row_prev) + col_prev,
           (c * row_prev) + col_next,
           (c * row_next) + col,
           (c * row_next) + col_prev,
           (c * row_next) + col_next >>

RECURSIVE SumOver(_, _)
SumOver(buf, S) ==
    IF S = {} THEN 0
    ELSE LET x == CHOOSE y \in S : TRUE IN buf[x] + SumOver(buf, S \ {x})

\* a sum that counts every distinct neighbouring cell once
NeighborSumDistinct(buf, c, r, i) ==
    LET p == ReadPositions(c, r, i)
    IN  SumOver(buf, {p[k] : k \in 1..8})

\* the `sum` of the closure of pulse for item i, read from `buf`
NeighborSum(buf, c, r, i) ==
    LET p == ReadPositions(c, r, i)
    IN  buf[p[1]] + buf[p[2]] + buf[p[3]] + buf[p[4]]
        + buf[p[5]] + buf[p[6]] + buf[p[7]] + buf[p[8]]

\* a rule that never lets a cell survive
ApplyRuleBirthOnly(rules, sum, cur) == IF rules.b[sum] THEN 1 ELSE 0

\* a rule that keeps the cell whenever it is not born
ApplyRuleKeep(rules, sum, cur) == IF rules.b[sum] THEN 1 ELSE cur

\* the value the closure returns: `if b[sum] {1} else if s[sum] {*n} else {0}`
ApplyRule(rules, sum, cur) ==
    IF rules.b[sum] THEN 1 ELSE IF rules.s[sum] THEN cur ELSE 0

\* the closure of pulse applied to (i, n), reading its neighbours from `buf`
CellNext(self, buf, i) ==
    ApplyRule(self.rules, NeighborSum(buf, self.n, self.m, i), self.rows[i])

RECURSIVE CollectFrom(_, _, _)
\* map + collect run as one sequential pass in index order
CollectFrom(self, i, acc) ==
    IF i \notin Indices(self) THEN acc
    ELSE CollectFrom(self, i + 1, acc @@ (i :> CellNext(self, self.rows, i)))

\* a pass that starts at the second item
PulseShort(self) == [self EXCEPT !.rows = CollectFrom(self, 1, <<>>)]

\* Matrix::pulse as a single sequential pass
Pulse(self) == [self EXCEPT !.rows = CollectFrom(self, 0, <<>>)]

(***************************************************************************)
(* Rule tables of the grids: those parsed from these rulestrings.          *)
(***************************************************************************)
RuleStrings ==
    { <<"/">>,
      Life,
      <<"B", "/", "S">>,
      <<"B", "2", "/", "S">>,
      <<"B", "8", "/">>,
      <<"/", "S", "8">>,
      <<"B", "3", "6", "/", "S", "2", "3">>,
      <<"B", "1", "3", "5", "7", "/", "S", "1", "3", "5", "7">>,
      <<"/", "S", "1", "2", "3", "4", "5", "6", "7", "8">> }

RuleTables == {FromStr(str).rules : str \in RuleStrings}

(***************************************************************************)
(* Sequential harness: Matrix::new, then seed and pulse calls in any       *)
(* order; pulse is one step.                                               *)
(***************************************************************************)
GridInit ==
    /\ \E m \in 1..MaxRows, n \in 1..MaxCols, rules \in RuleTables :
            /\ m * n <= MaxCells
            /\ matrix = MatrixNew(m, n, rules)
    /\ pc = "idle"
    /\ left = 0
    /\ gen = 0
    /\ SeedIdle
    /\ ParserIdle
    /\ ParIdle
    /\ MainIdle

\* entry of seed: `iterations` is fixed from the argument
SeedCall(c) ==
    /\ pc = "idle"
    /\ left' = SeedIterations(matrix, c)
    /\ cellsArg' = c
    /\ draws' = 0
    /\ pc' = "seed"
    /\ UNCHANGED <<matrix, gen, parserVars, parVars, mainVars>>

\* one iteration of the seed loop
SeedDraw ==
    /\ pc = "seed"
    /\ left > 0
    /\ \E i \in Indices(matrix) : matrix' = SeedWrite(matrix, i)
    /\ left' = left - 1
    /\ draws' = draws + 1
    /\ UNCHANGED <<pc, gen, cellsArg, parserVars, parVars, mainVars>>

\* the seed loop is over
SeedReturn ==
    /\ pc = "seed"
    /\ left = 0
    /\ pc' = "idle"
    /\ cellsArg' = NoCells
    /\ draws' = 0
    /\ UNCHANGED <<matrix, left, gen, parserVars, parVars, mainVars>>

\* matrix.pulse()
PulseCall ==
    /\ pc = "idle"
    /\ gen < MaxGen
    /\ matrix' = Pulse(matrix)
    /\ gen' = gen + 1
    /\ UNCHANGED <<pc, left, parserVars, parVars, mainVars, seedVars>>

GridNext ==
    \/ \E c \in {NoCells} \cup (0..MaxSeed) : SeedCall(c)
    \/ SeedDraw
    \/ SeedReturn
    \/ PulseCall

SpecGrid == GridInit /\ [][GridNext]_vars

(***************************************************************************)
(* Seeding harness: Matrix::new, then seed called on the zeroed grid.      *)
(***************************************************************************)
AllDead(self) == \A i \in Indices(self) : self.rows[i] = 0

\* the caller calls seed only while the buffer is all zero
SeedZeroed(c) ==
    /\ AllDead(matrix)
    /\ SeedCall(c)

SeedNext ==
    \/ \E c \in {NoCells} \cup (0..MaxSeed) : SeedZeroed(c)
    \/ SeedDraw
    \/ SeedReturn

SpecSeed == GridInit /\ [][SeedNext]_vars

(***************************************************************************)
(* Parallel harness: pulse as rayon runs it.  par_iter().enumerate()       *)
(* hands the items (i, n) to the threads of the pool in any order; each    *)
(* thread runs the closure on an item and writes the value into slot i of  *)
(* the Vec being collected; the assignment to self.rows happens once       *)
(* collect has returned.                                                   *)
(***************************************************************************)
NoCell == -1

IdleWorker == [cell |-> NoCell, val |-> 0]

Workers == 1..nworkers

\* a closure that reads slots already collected in place of the old values
ReadBufferInPlace ==
    [i \in Indices(matrix) |-> IF i \in DOMAIN out THEN out[i] ELSE matrix.rows[i]]

\* the buffer the closure reads its neighbours from: self.rows
ReadBuffer == matrix.rows

\* a write that also lands in the buffer being read
PutInPlace(w) ==
    /\ out' = out @@ (local[w].cell :> local[w].val)
    /\ matrix' = [matrix EXCEPT !.rows[local[w].cell] = local[w].val]

\* the collect consumer writes worker w's value into its slot of the new Vec
PutResult(w) ==
    /\ out' = out @@ (local[w].cell :> local[w].val)
    /\ matrix' = matrix

ParInit ==
    /\ \E m \in 1..ParRows, n \in 1..ParCols, rules \in RuleTables :
            /\ m * n <= ParCells
            /\ matrix = MatrixNew(m, n, rules)
    /\ pc = "idle"
    /\ left = 0
    /\ gen = 0
    /\ SeedIdle
    /\ ParserIdle
    /\ ParIdle
    /\ MainIdle

\* pulse is entered: the parallel iterator is driven by k threads
PulseFork(k) ==
    /\ pc = "idle"
    /\ gen < MaxGen
    /\ pc' = "pulse"
    /\ nworkers' = k
    /\ local' = [w \in 1..k |-> IdleWorker]
    /\ out' = <<>>
    /\ UNCHANGED <<matrix, left, gen, parserVars, mainVars, seedVars>>

\* thread w takes item i and runs the closure on it
WorkerTake(w, i) ==
    /\ pc = "pulse"
    /\ local[w] = IdleWorker
    /\ i \notin DOMAIN out
    /\ \A v \in Workers : local[v].cell # i
    /\ local' = [local EXCEPT ![w] = [cell |-> i, val |-> CellNext(matrix, ReadBuffer, i)]]
    /\ UNCHANGED <<matrix, pc, left, gen, nworkers, out, parserVars, mainVars, seedVars>>

\* thread w delivers the value it computed
WorkerPut(w) ==
    /\ pc = "pulse"
    /\ local[w] # IdleWorker
    /\ PutResult(w)
    /\ local' = [local EXCEPT ![w] = IdleWorker]
    /\ UNCHANGED <<pc, left, gen, nworkers, parserVars, mainVars, seedVars>>

\* collect has returned: `self.rows = <the new Vec>`
PulseJoin ==
    /\ pc = "pulse"
    /\ DOMAIN out = Indices(matrix)
    /\ matrix' = [matrix EXCEPT !.rows = out]
    /\ pc' = "idle"
    /\ gen' = gen + 1
    /\ out' = <<>>
    /\ UNCHANGED <<left, nworkers, local, parserVars, mainVars, seedVars>>

ParNext ==
    \/ \E c \in {NoCells} \cup (0..MaxSeed) : SeedCall(c)
    \/ SeedDraw
    \/ SeedReturn
    \/ \E k \in 1..MaxWorkers : PulseFork(k)
    \/ \E w \in Workers, i \in Indices(matrix) : WorkerTake(w, i)
    \/ \E w \in Workers : WorkerPut(w)
    \/ PulseJoin

SpecPar == ParInit /\ [][ParNext]_vars

(***************************************************************************)
(* main: argument validation, construction, seeding, and the output loop.  *)
(***************************************************************************)
None == <<>>

Some(v) == <<v>>

\* ArgMatches::value_of (clap 2): None for an argument without a value and
\* for a name that is not among the names registered with Arg::with_name,
\* which are the fields of `matches`
ValueOf(m, name) == IF name \in DOMAIN m THEN m[name] ELSE None

\* Option::unwrap_or
UnwrapOr(opt, default) == IF opt = None THEN default ELSE opt[1]

DefaultRows == <<"2", "3">>

DefaultColumns == <<"3", "8">>

\* the name main looks the seed count up by
SeedLookupName == "seed"

RECURSIVE DecimalValue(_, _)
DecimalValue(cs, acc) ==
    IF cs = <<>> THEN acc
    ELSE DecimalValue(Tail(cs), (acc * 10) + ToDigit(Head(cs)))

\* str::parse::<usize>: an optional '+', then one or more decimal digits
\* (the values enumerated here are far below usize::MAX)
ParseUsize(str) ==
    LET ds == IF StartsWith(str, "+") THEN Tail(str) ELSE str
    IN  IF ds = <<>> \/ \E k \in 1..Len(ds) : ToDigit(ds[k]) = NoDigit
        THEN [ok |-> FALSE, val |-> 0]
        ELSE [ok |-> TRUE, val |-> DecimalValue(ds, 0)]

\* die!: print the message and std::process::exit(1)
Die ==
    /\ pc' = "exited"
    /\ exit' = 1

\* `let m = match matches.value_of("rows").unwrap_or("23").parse::<usize>()`
ReadRows ==
    /\ pc = "rows"
    /\ LET r == ParseUsize(UnwrapOr(ValueOf(matches, "rows"), DefaultRows))
       IN  IF r.ok /\ r.val > 0
           THEN /\ loc' = [loc EXCEPT !.m = r.val]
                /\ pc' = "columns"
                /\ exit' = exit
           ELSE /\ Die
                /\ loc' = loc
    /\ UNCHANGED <<matrix, left, gen, matches, frames, parserVars, parVars, seedVars>>

\* `let n = match matches.value_of("columns").unwrap_or("38").parse::<usize>()`
ReadColumns ==
    /\ pc = "columns"
    /\ LET r == ParseUsize(UnwrapOr(ValueOf(matches, "columns"), DefaultColumns))
       IN  IF r.ok /\ r.val > 0
           THEN /\ loc' = [loc EXCEPT !.n = r.val]
                /\ pc' = "rulestring"
                /\ exit' = exit
           ELSE /\ Die
                /\ loc' = loc
    /\ UNCHANGED <<matrix, left, gen, matches, frames, parserVars, parVars, seedVars>>

\* `let rulestring = match matches.value_of("rulestring").unwrap().parse()`
ReadRulestring ==
    /\ pc = "rulestring"
    /\ LET r == FromStr(ValueOf(matches, "rulestring")[1])
       IN  IF r.tag = "Ok"
           THEN /\ loc' = [loc EXCEPT !.rulestring = r.rules]
                /\ pc' = "new"
                /\ exit' = exit
           ELSE /\ Die
                /\ loc' = loc
    /\ UNCHANGED <<matrix, left, gen, matches, frames, parserVars, parVars, seedVars>>

\* `let mut matrix = Matrix::new(m, n, rulestring)`
NewMatrix ==
    /\ pc = "new"
    /\ matrix' = MatrixNew(loc.m, loc.n, loc.rulestring)
    /\ pc' = "seedarg"
    /\ UNCHANGED <<left, gen, mainVars, parserVars, parVars, seedVars>>

\* `match matches.value_of("seed")`: the call of seed, or die!
SeedArg ==
    /\ pc = "seedarg"
    /\ LET v == ValueOf(matches, SeedLookupName)
       IN  IF v = None
           THEN /\ left' = SeedIterations(matrix, NoCells)
                /\ cellsArg' = NoCells
                /\ draws' = 0
                /\ pc' = "seeding"
                /\ exit' = exit
           ELSE LET r == ParseUsize(v[1])
                IN  IF r.ok
                    THEN /\ left' = SeedIterations(matrix, r.val)
                         /\ cellsArg' = r.val
                         /\ draws' = 0
                         /\ pc' = "seeding"
                         /\ exit' = exit
                    ELSE /\ Die
                         /\ left' = left
                         /\ UNCHANGED seedVars
    /\ UNCHANGED <<matrix, gen, matches, loc, frames, parserVars, parVars>>

\* one iteration of the loop of the seed call made by main
MainSeedDraw ==
    /\ pc = "seeding"
    /\ left > 0
    /\ \E i \in Indices(matrix) : matrix' = SeedWrite(matrix, i)
    /\ left' = left - 1
    /\ draws' = draws + 1
    /\ UNCHANGED <<pc, gen, cellsArg, mainVars, parserVars, parVars>>

\* the return of seed without the first frame
FirstFrameNoPrint ==
    /\ pc = "seeding"
    /\ left = 0
    /\ pc' = "loop"
    /\ cellsArg' = NoCells
    /\ draws' = 0
    /\ UNCHANGED <<matrix, left, gen, matches, loc, exit, frames, parserVars, parVars>>

\* seed has returned: `println!("\x1B[2J{}", &matrix)`
FirstFrame ==
    /\ pc = "seeding"
    /\ left = 0
    /\ frames' = frames + 1
    /\ pc' = "loop"
    /\ cellsArg' = NoCells
    /\ draws' = 0
    /\ UNCHANGED <<matrix, left, gen, matches, loc, exit, parserVars, parVars>>

\* `matrix.pulse()` in the loop
LoopPulse ==
    /\ pc = "loop"
    /\ gen < MaxGen
    /\ matrix' = Pulse(matrix)
    /\ gen' = gen + 1
    /\ pc' = "print"
    /\ UNCHANGED <<left, mainVars, parserVars, parVars, seedVars>>

\* `println!("\x1B[H{}", &matrix)` and the sleep that follows
LoopFrame ==
    /\ pc = "print"
    /\ frames' = frames + 1
    /\ pc' = "loop"
    /\ UNCHANGED <<matrix, left, gen, matches, loc, exit, parserVars, parVars, seedVars>>

\* values given on the command line for -m, -n and -s
IntArgValues ==
    {None, Some(<<"0">>), Some(<<"2">>), Some(<<"3">>), Some(<<"+", "2">>),
     Some(<<"x">>), Some(<<"-", "1">>)}

\* values given for -r (clap requires the argument)
RuleArgValues ==
    {Some(Life), Some(<<"B", "/", "S">>), Some(<<"B", "9", "/", "S", "2">>),
     Some(<<"B", "3", "/", "S", "2", "3", "/", "S", "1">>)}

CommandLines ==
    [rows : IntArgValues, columns : IntArgValues,
     rulestring : RuleArgValues, seed_iter : IntArgValues]

\* the cells of the grid a command line asks for; 0 when validation of
\* rows, columns or rulestring stops the run before the grid is built
CellsAskedFor(m) ==
    LET r == ParseUsize(UnwrapOr(m.rows, DefaultRows))
        c == ParseUsize(UnwrapOr(m.columns, DefaultColumns))
    IN  IF r.ok /\ c.ok /\ FromStr(m.rulestring[1]).tag = "Ok"
        THEN r.val * c.val
        ELSE 0

\* the process starts with any command line whose grid has at most MaxCells
\* cells
MainInit ==
    /\ matches \in {m \in CommandLines : CellsAskedFor(m) <= MaxCells}
    /\ loc = NoLocals
    /\ exit = NoExit
    /\ frames = 0
    /\ matrix = NoMatrix
    /\ pc = "rows"
    /\ left = 0
    /\ gen = 0
    /\ SeedIdle
    /\ ParserIdle
    /\ ParIdle

Next ==
    \/ ReadRows
    \/ ReadColumns
    \/ ReadRulestring
    \/ NewMatrix
    \/ SeedArg
    \/ MainSeedDraw
    \/ FirstFrame
    \/ LoopPulse
    \/ LoopFrame

Spec == MainInit /\ [][Next]_vars

\* the process is scheduled: once the grid is built, main takes its next step
\* whenever it has one
Fairness ==
    /\ WF_vars(MainSeedDraw)
    /\ WF_vars(FirstFrame)
    /\ WF_vars(LoopPulse)
    /\ WF_vars(LoopFrame)

SpecFair == Spec /\ Fairness

(***************************************************************************)
(* Properties of the parser and of the canonical rendering.                *)
(***************************************************************************)
\* the parts of the trimmed input
InputParts == Split(Trim(input), "/")

ValidDigitChars == {DigitChars[d + 1] : d \in 1..8}

\* digit d occurs in `part` after its first character
DigitAfterFirst(part, d) == \E k \in 2..Len(part) : part[k] = DigitChars[d + 1]

\* the set of slots that are true in a 9-slot table
TrueSlots(arr) == {k \in Slots : arr[k]}

\* C1: for every rulestring that parse accepts, parsing the canonical
\* rendering of the parsed table succeeds and yields the same birth and
\* survive tables.
C1_RoundTrip == ppc = "reparsed" => reparsed = Ok(parsed.rules)

\* C7: on success, for d in 1..8 birth[d] holds exactly when digit d occurs
\* after the first character of the birth part, and birth[0] exactly when the
\* birth part is "B"; symmetrically for survive and "S".  "B3/S23" gives
\* birth {3}, survive {2,3}; "B/S" gives birth {0}, survive {0}.
C7_ParsedTable ==
    (ppc # "start" /\ parsed.tag = "Ok") =>
        LET bs == InputParts
            r  == parsed.rules
        IN  /\ Len(bs) = 2
            /\ \A d \in 1..8 : r.b[d] <=> DigitAfterFirst(bs[1], d)
            /\ \A d \in 1..8 : r.s[d] <=> DigitAfterFirst(bs[2], d)
            /\ r.b[0] <=> (bs[1] = <<"B">>)
            /\ r.s[0] <=> (bs[2] = <<"S">>)
            /\ (input = Life =>
                    TrueSlots(r.b) = {3} /\ TrueSlots(r.s) = {2, 3})
            /\ (input = <<"B", "/", "S">> =>
                    TrueSlots(r.b) = {0} /\ TrueSlots(r.s) = {0})

C7_Witness ==
    /\ ppc = "parsed"
    /\ input = Life
    /\ TrueSlots(parsed.rules.b) = {3}
    /\ TrueSlots(parsed.rules.s) = {2, 3}

\* a part that is one character long and is not the letter
OneCharNot(part, letter) == Len(part) = 1 /\ part # <<letter>>

\* a part that is one byte long and is not the letter
OneByteNot(part, letter) == StrLen(part) = 1 /\ part # <<letter>>

\* the birth part passes its own validation
BirthAccepted(part) ==
    \/ part = <<"B">>
    \/ /\ StrLen(part) # 1
       /\ \A k \in 2..Len(part) : part[k] \in ValidDigitChars

\* C8 as stated: BadFormat exactly when the part count is not two or a
\* one-character part is not "B" (birth) or "S" (survive).
C8_BadFormatIff ==
    ppc # "start" =>
        LET bs == InputParts
        IN  (parsed.tag = "BadString") <=>
                IF Len(bs) # 2 THEN TRUE
                ELSE OneCharNot(bs[1], "B") \/ OneCharNot(bs[2], "S")

\* C8 amended: BadFormat exactly when the part count is not two, or the
\* birth part is one byte long and not "B", or the birth part is accepted
\* and the survive part is one byte long and not "S".  A wrong part count
\* gives BadFormat whatever the parts contain.
C8_BadFormatSequential ==
    ppc # "start" =>
        LET bs == InputParts
        IN  (parsed.tag = "BadString") <=>
                IF Len(bs) # 2 THEN TRUE
                ELSE \/ OneByteNot(bs[1], "B")
                     \/ BirthAccepted(bs[1]) /\ OneByteNot(bs[2], "S")

C8_Witness ==
    /\ ppc = "parsed"
    /\ parsed = BadString
    /\ Len(InputParts) = 3
    /\ \E k \in 1..Len(input) : input[k] = "9"

\* the chars of a part that the digit scan visits
Scanned(part) == SkipOne(part)

HasOffender(cs) == \E k \in 1..Len(cs) : cs[k] \notin ValidDigitChars

FirstOffender(cs) ==
    cs[CHOOSE k \in 1..Len(cs) :
            /\ cs[k] \notin ValidDigitChars
            /\ \A j \in 1..(k - 1) : cs[j] \in ValidDigitChars]

\* C9 as stated: for a two-part input, a char after the first of a part that
\* is not a digit 1..8 makes parse fail with InvalidDigit(c), c the first such
\* char scanning the birth part and then the survive part.
C9_InvalidDigitAlways ==
    ppc # "start" =>
        LET bs == InputParts
        IN  Len(bs) = 2 =>
                LET cs == Scanned(bs[1]) \o Scanned(bs[2])
                IN  HasOffender(cs) => parsed = InvalidInt(FirstOffender(cs))

\* C9 amended: as stated, except that when the birth part is a single
\* one-byte character other than "B" parse fails with BadFormat instead; in
\* neither case is a rule table returned.
C9_InvalidDigitSequential ==
    ppc # "start" =>
        LET bs == InputParts
        IN  Len(bs) = 2 =>
                LET cs == Scanned(bs[1]) \o Scanned(bs[2])
                IN  HasOffender(cs) =>
                        IF OneByteNot(bs[1], "B")
                        THEN parsed = BadString
                        ELSE parsed = InvalidInt(FirstOffender(cs))

C9_Witness ==
    /\ ppc = "parsed"
    /\ input = <<"B", "9", "/", "S", "2">>
    /\ parsed = InvalidInt("9")

(***************************************************************************)
(* Properties of one step of the grid.                                     *)
(***************************************************************************)
\* the buffer value at (row, col) of an R x C torus, indices taken modulo
At(buf, R, C, row, col) == buf[(((row + R) % R) * C) + ((col + C) % C)]

\* the sum over the eight toroidal Moore positions of (row, col)
MooreSum(buf, R, C, row, col) ==
    At(buf, R, C, row, col - 1) + At(buf, R, C, row, col + 1)
    + At(buf, R, C, row - 1, col) + At(buf, R, C, row + 1, col)
    + At(buf, R, C, row - 1, col - 1) + At(buf, R, C, row - 1, col + 1)
    + At(buf, R, C, row + 1, col - 1) + At(buf, R, C, row + 1, col + 1)

\* the Moore sum of the cell at flat index i of grid `self`
MooreSumAt(self, i) ==
    MooreSum(self.rows, self.m, self.n, i \div self.n, i % self.n)

\* C2: one step produces a buffer whose entry at each index i = row*C+col is
\* 1 if birth[s], else the old value at i if survive[s], else 0, where s is
\* the sum of the old buffer over the eight toroidal Moore positions.
C2_StepFunction ==
    [][gen' = gen + 1 =>
        /\ Indices(matrix') = Indices(matrix)
        /\ \A i \in Indices(matrix) :
              LET s == MooreSumAt(matrix, i)
              IN  matrix'.rows[i] =
                      IF matrix.rules.b[s] THEN 1
                      ELSE IF matrix.rules.s[s] THEN matrix.rows[i]
                      ELSE 0]_vars

C2_Witness ==
    /\ gen = 1
    /\ matrix.m = 3
    /\ matrix.n = 3
    /\ \E i, j \in Indices(matrix) : matrix.rows[i] = 1 /\ matrix.rows[j] = 0

\* C3: in a step, a cell with k live neighbours that was dead is alive
\* afterwards exactly when birth[k], and a cell that was alive is alive
\* afterwards exactly when survive[k].
C3_BirthSurvive ==
    [][gen' = gen + 1 =>
        \A i \in Indices(matrix) :
            LET k == MooreSumAt(matrix, i)
            IN  /\ matrix.rows[i] = 0 =>
                      (matrix'.rows[i] = 1 <=> matrix.rules.b[k])
                /\ matrix.rows[i] = 1 =>
                      (matrix'.rows[i] = 1 <=> matrix.rules.s[k])]_vars

\* C4: after Matrix::new and any sequence of seed and step calls, every
\* buffer entry is 0 or 1.
C4_Binary == \A i \in Indices(matrix) : matrix.rows[i] \in {0, 1}

C4_Witness ==
    /\ gen = 2
    /\ pc = "idle"
    /\ \E i, j \in Indices(matrix) : matrix.rows[i] = 1 /\ matrix.rows[j] = 0

(***************************************************************************)
(* Properties of the parallel step.                                        *)
(***************************************************************************)
\* C5: while the workers of a step compute cells, in any interleaving, the
\* grid and its buffer stay those of generation N; the buffer is replaced in
\* a single transition, by the completely collected new buffer, only once
\* every cell has been computed.
C5_NoPartialGeneration ==
    [][pc = "pulse" =>
        \/ matrix' = matrix
        \/ /\ DOMAIN out = Indices(matrix)
           /\ \A w \in Workers : local[w] = IdleWorker
           /\ matrix'.rows = out
           /\ pc' = "idle"
           /\ gen' = gen + 1]_vars

C5_Witness ==
    /\ pc = "pulse"
    /\ out # <<>>
    /\ DOMAIN out # Indices(matrix)
    /\ \E w \in Workers : local[w] # IdleWorker
    /\ \E i \in DOMAIN out : out[i] # matrix.rows[i]

\* C6: for a fixed buffer, dimensions and rule table the buffer after a step
\* is that of the single sequential pass, whatever the number of workers,
\* the assignment of cells to workers and the order of processing.
C6_Deterministic ==
    [][(pc = "pulse" /\ pc' = "idle") =>
            matrix'.rows = Pulse(matrix).rows]_vars

C6_Witness ==
    /\ pc = "idle"
    /\ gen = 1
    /\ nworkers = 2
    /\ matrix.m = 2
    /\ matrix.n = 2
    /\ \E i, j \in Indices(matrix) : matrix.rows[i] = 1 /\ matrix.rows[j] = 0

(***************************************************************************)
(* Properties of startup.                                                  *)
(***************************************************************************)
\* an integer option that is given and does not parse
Unparsable(opt) == opt # None /\ ~ParseUsize(opt[1]).ok

\* an integer option, given or defaulted, whose value is zero
IsZero(opt, default) ==
    LET r == ParseUsize(UnwrapOr(opt, default)) IN r.ok /\ r.val = 0

\* the command line holds one of the startup failures
StartupFailure(m) ==
    \/ IsZero(m.rows, DefaultRows)
    \/ IsZero(m.columns, DefaultColumns)
    \/ Unparsable(m.rows)
    \/ Unparsable(m.columns)
    \/ Unparsable(m.seed_iter)
    \/ FromStr(m.rulestring[1]).tag # "Ok"

\* C10: every startup failure (zero rows, zero columns, an unparsable integer
\* in any integer option including the seed count, an unparsable rulestring)
\* ends the process with a non-zero exit status before any grid is
\* constructed and before any step runs.
C10_StartupFailureIsFatal ==
    StartupFailure(matches) =>
        /\ matrix = NoMatrix
        /\ gen = 0
        /\ frames = 0
        /\ pc = "exited" => exit # 0 /\ exit # NoExit

(***************************************************************************)
(* Properties of seeding.                                                  *)
(***************************************************************************)
\* the number of live cells
Live(self) == Cardinality({i \in Indices(self) : self.rows[i] = 1})

\* the seed count the command line asks for: the option when it is given,
\* floor(rows*cols/2) when it is absent
SeedCountAskedFor ==
    IF matches.seed_iter # None
    THEN ParseUsize(matches.seed_iter[1]).val
    ELSE (matrix.m * matrix.n) \div 2

\* C11: the number of seeding draws performed at startup equals the
\* seed-count option when the user supplies one (any integer >= 0), and
\* floor(rows*cols/2) only when the option is absent.
C11_SeedCountOption ==
    (pc = "seeding" /\ left = 0) =>
        IF matches.seed_iter # None /\ ~ParseUsize(matches.seed_iter[1]).ok
        THEN TRUE
        ELSE draws = SeedCountAskedFor

\* the count of the running seed call: its argument, or the default
SeedCount == IF cellsArg # NoCells THEN cellsArg ELSE Cardinality(Indices(matrix)) \div 2

\* C12: seed(count) on a zeroed grid ends after exactly count draws and
\* leaves at most count live cells; seed(0) leaves every cell 0; seed never
\* changes a cell from 1 to 0.
C12_SeedDraws ==
    /\ [](pc = "seed" =>
            /\ draws + left = SeedCount
            /\ left >= 0
            /\ Live(matrix) <= draws
            /\ (left = 0 => draws = SeedCount /\ Live(matrix) <= SeedCount)
            /\ (SeedCount = 0 => AllDead(matrix)))
    /\ [][/\ (pc = "seed" /\ pc' = "idle") => draws = SeedCount
          /\ \A i \in Indices(matrix) :
                matrix.rows[i] = 1 => matrix'.rows[i] = 1]_vars

C12_Witness ==
    /\ pc = "seed"
    /\ left = 0
    /\ cellsArg = 2
    /\ draws = 2
    /\ Live(matrix) = 1

(***************************************************************************)
(* Properties of the neighbour sum.                                        *)
(***************************************************************************)
\* the neighbour sum the step computes for the cell at index i
SumAt(self, i) == NeighborSum(self.rows, self.n, self.m, i)

AllAlive(self) == \A i \in Indices(self) : self.rows[i] = 1

\* C13: in every step from a binary buffer, for every cell and every grid
\* size, the eight positions read lie inside [0, R*C) and the neighbour sum
\* lies in 0..8, so birth[sum] and survive[sum] are never out of range.
C13_InRange ==
    \A i \in Indices(matrix) :
        LET p   == ReadPositions(matrix.n, matrix.m, i)
            sum == SumAt(matrix, i)
        IN  /\ \A k \in 1..8 : p[k] >= 0 /\ p[k] < matrix.m * matrix.n
            /\ sum \in 0..8
            /\ sum \in DOMAIN matrix.rules.b
            /\ sum \in DOMAIN matrix.rules.s

C13_Witness ==
    /\ gen = 1
    /\ matrix.m = 3
    /\ matrix.n = 3
    /\ \E i, j \in Indices(matrix) : SumAt(matrix, i) = 8 /\ SumAt(matrix, j) = 7

\* C14: on a 1x1 grid the neighbour sum is 8 * the current value: an alive
\* singleton is alive after a step iff birth[8] or survive[8], a dead one iff
\* birth[0].
C14_Singleton ==
    /\ []((matrix.m = 1 /\ matrix.n = 1) =>
            /\ \A k \in 1..8 : ReadPositions(1, 1, 0)[k] = 0
            /\ SumAt(matrix, 0) = 8 * matrix.rows[0])
    /\ [][(gen' = gen + 1 /\ matrix.m = 1 /\ matrix.n = 1) =>
            /\ matrix.rows[0] = 1 =>
                  (matrix'.rows[0] = 1 <=>
                      (matrix.rules.b[8] \/ matrix.rules.s[8]))
            /\ matrix.rows[0] = 0 =>
                  (matrix'.rows[0] = 1 <=> matrix.rules.b[0])]_vars

C14_Witness ==
    /\ gen = 1
    /\ matrix.m = 1
    /\ matrix.n = 1
    /\ matrix.rows[0] = 1
    /\ matrix.rules.s[8]
    /\ ~matrix.rules.b[8]
    /\ ~matrix.rules.b[0]

\* C15: on an all-alive grid of any size every cell has neighbour sum 8
\* (wrapped duplicates counted with multiplicity), so after one step the grid
\* is all-alive if birth[8] or survive[8] and all-dead otherwise; under B3/S23
\* the 3x3 all-alive grid becomes all-dead.
C15_AllAlive ==
    /\ [](AllAlive(matrix) => \A i \in Indices(matrix) : SumAt(matrix, i) = 8)
    /\ [][(gen' = gen + 1 /\ AllAlive(matrix)) =>
            /\ IF matrix.rules.b[8] \/ matrix.rules.s[8]
               THEN AllAlive(matrix')
               ELSE AllDead(matrix')
            /\ (matrix.rules = FromStr(Life).rules /\ matrix.m = 3 /\ matrix.n = 3)
                  => AllDead(matrix')]_vars

\* with birth {8} and no survival a 3x3 grid is all-alive after a step only
\* if it was all-alive before it
C15_Witness ==
    /\ gen = 1
    /\ pc = "idle"
    /\ matrix.m = 3
    /\ matrix.n = 3
    /\ TrueSlots(matrix.rules.b) = {8}
    /\ TrueSlots(matrix.rules.s) = {}
    /\ AllAlive(matrix)

\* the grid holds exactly one live cell and runs B3/S23
LoneCellOfLife(self) == self.rules = FromStr(Life).rules /\ Live(self) = 1

\* C16 as stated: under B3/S23, on a grid of any size with exactly one live
\* cell, that cell has neighbour sum 0 and is dead after one step.
C16_LoneCellAnySize ==
    /\ [](LoneCellOfLife(matrix) =>
            \A i \in Indices(matrix) :
                matrix.rows[i] = 1 => SumAt(matrix, i) = 0)
    /\ [][(gen' = gen + 1 /\ LoneCellOfLife(matrix)) =>
            \A i \in Indices(matrix) :
                matrix.rows[i] = 1 => matrix'.rows[i] = 0]_vars

\* C16 amended: the same on grids with at least two rows and two columns.
C16_LoneCellTwoByTwo ==
    /\ []((LoneCellOfLife(matrix) /\ matrix.m >= 2 /\ matrix.n >= 2) =>
            \A i \in Indices(matrix) :
                matrix.rows[i] = 1 => SumAt(matrix, i) = 0)
    /\ [][(gen' = gen + 1 /\ LoneCellOfLife(matrix)
                /\ matrix.m >= 2 /\ matrix.n >= 2) =>
            \A i \in Indices(matrix) :
                matrix.rows[i] = 1 => matrix'.rows[i] = 0]_vars

\* a 2x2 grid of B3/S23 that holds one live cell after a step, with a step
\* still to come
C16_Witness ==
    /\ gen = 1
    /\ matrix.m = 2
    /\ matrix.n = 2
    /\ matrix.rules = FromStr(Life).rules
    /\ Live(matrix) = 1

\* C18: under the table of Rulestring::new (every slot false) every cell is 0
\* after one step from any seeded grid, and after every later step.
C18_EmptyRuleDies ==
    [][(gen' = gen + 1 /\ matrix.rules = RulestringNew) => AllDead(matrix')]_vars

C18_Witness ==
    /\ gen = 2
    /\ pc = "idle"
    /\ matrix.rules = RulestringNew
    /\ matrix.m = 3
    /\ matrix.n = 3
    /\ AllDead(matrix)

\* C20: seed and step change nothing but the cell buffer: rows, cols and the
\* rule table keep the values given at construction, and the buffer length
\* stays rows*cols.
C20_Frame ==
    /\ [](/\ Indices(matrix) = 0..((matrix.m * matrix.n) - 1)
          /\ Cardinality(Indices(matrix)) = matrix.m * matrix.n)
    /\ [][/\ matrix'.m = matrix.m
          /\ matrix'.n = matrix.n
          /\ matrix'.rules = matrix.rules]_vars

C20_Witness ==
    /\ gen = 2
    /\ pc = "seed"
    /\ draws = 1
    /\ \E i, j \in Indices(matrix) : matrix.rows[i] = 1 /\ matrix.rows[j] = 0

(***************************************************************************)
(* Lifecycle of a run.                                                     *)
(***************************************************************************)
Running == pc \in {"loop", "print"}

\* C17: the grid is constructed with an all-zero buffer, then seeded exactly
\* once, then only stepped; no seed happens after a step; generation 0 is
\* rendered before the first step; every later generation is rendered exactly
\* once right after the step that produced it; the loop does not end on its
\* own: within the MaxGen generations the model counts, another step always
\* eventually happens.
C17_Lifecycle ==
    /\ [](pc = "seedarg" => AllDead(matrix) /\ gen = 0 /\ frames = 0)
    /\ [](pc = "seeding" => gen = 0 /\ frames = 0)
    /\ [](pc = "loop" => frames = gen + 1)
    /\ [](pc = "print" => frames = gen /\ gen > 0)
    /\ [](Running => exit = NoExit)
    /\ [][/\ (pc' = "seeding" /\ pc # "seeding") => pc = "seedarg"
          /\ (pc' = "seedarg") => pc \in {"new", "seedarg"}
          /\ Running => Running'
          /\ draws' # draws => pc' = "seeding" \/ pc = "seeding"
          /\ (Running /\ matrix' # matrix) =>
                /\ pc = "loop"
                /\ gen' = gen + 1
                /\ matrix' = Pulse(matrix)
          /\ gen' # gen =>
                /\ pc = "loop"
                /\ pc' = "print"
                /\ gen' = gen + 1
                /\ frames' = frames
          /\ frames' # frames =>
                /\ frames' = frames + 1
                /\ matrix' = matrix
                /\ gen' = gen
                /\ pc' = "loop"]_vars
    /\ (pc \in {"seeding", "loop", "print"})
            ~> (pc = "loop" /\ gen = MaxGen /\ frames = MaxGen + 1)

C17_Witness ==
    /\ pc = "loop"
    /\ gen = 2
    /\ frames = 3
    /\ Live(matrix) > 0

(***************************************************************************)
(* The leading character of a part.                                        *)
(***************************************************************************)
RECURSIVE JoinParts(_)
\* the parts put together again with '/' between them
JoinParts(ps) ==
    IF Len(ps) = 1 THEN ps[1]
    ELSE ps[1] \o <<"/">> \o JoinParts(Tail(ps))

\* the trimmed input with the first character of part p replaced by ch
WithLeading(p, ch) ==
    JoinParts([InputParts EXCEPT ![p] = <<ch>> \o Tail(@)])

\* characters tried as the new leading character
LeadingChars == Alphabet \cup {"X", "Y", "\t"}

\* the birth part (1) or the survive part (2) is longer than one character
LongPart(p) == p \in DOMAIN InputParts /\ Len(InputParts[p]) > 1

\* C19 as stated: for a part longer than one character, replacing the first
\* character of the birth part or of the survive part by any other single
\* character leaves the parse outcome unchanged.
C19_AnyLeadingChar ==
    ppc = "parsed" =>
        \A p \in {1, 2} : \A ch \in LeadingChars :
            (LongPart(p) /\ ch # InputParts[p][1]) =>
                FromStr(WithLeading(p, ch)) = parsed

\* C19 amended: the same for every new character that is not '/' and, in the
\* birth part, not whitespace.
C19_LeadingCharInsidePart ==
    ppc = "parsed" =>
        \A p \in {1, 2} : \A ch \in LeadingChars :
            (/\ LongPart(p)
             /\ ch # InputParts[p][1]
             /\ ch # "/"
             /\ (p = 1 => ~IsWhitespace(ch))) =>
                FromStr(WithLeading(p, ch)) = parsed

C19_Witness ==
    /\ ppc = "parsed"
    /\ input = <<"X", "3", "/", "Y", "2", "3">>
    /\ parsed = FromStr(Life)
    /\ WithLeading(1, "S") = <<"S", "3", "/", "Y", "2", "3">>
    /\ FromStr(WithLeading(2, "B")) = parsed

=============================================================================
